---------------------------- MODULE Spec2Model ----------------------------
(***************************************************************************)
(* vaultphrases: deterministic passphrase derivation.                      *)
(*                                                                         *)
(* A Python str is modelled as a sequence of one-character strings, a      *)
(* bytes object as a sequence of integers 0..255, a list as a sequence.    *)
(* The cryptographic primitives (Argon2id, HMAC-SHA256) are modelled as    *)
(* ideal functions: Argon2id as a term over its arguments, HMAC-SHA256 as  *)
(* an arbitrary collision-free table chosen by the environment.            *)
(***************************************************************************)
EXTENDS Integers, Sequences, FiniteSets, TLC

VARIABLES
    \* normalise_phrase applied to one phrase
    phrase,         \* the str passed to normalise_phrase
    normalised,     \* its result, NotRun before the call
    \* derive_master_key applied to a phrase and to a reformatted copy of it
    rootPhrase,     \* the root phrase as first typed
    variant,        \* the same phrase retyped with other spacing and casing
    testMode,       \* the test_mode argument
    keyRoot,        \* derive_master_key(rootPhrase, testMode), NoKey before
    keyVariant,     \* derive_master_key(variant, testMode), NoKey before
    \* load_wordlist applied to one path
    wlPath,         \* what the path names: nothing, a directory, or a file
    wlText,         \* the decoded text of the file
    wlResult,       \* what load_wordlist returned or raised, NoResult before
    \* bytes_to_phrase applied to one argument list
    encRaw,         \* raw: bytes
    encWords,       \* words: list of str
    encCount,       \* word_count
    encDelimiter,   \* delimiter
    encResult,      \* what bytes_to_phrase returned or raised, NoResult before
    \* hkdf_child applied to one master key and two labels
    hmacOracle,     \* HMAC-SHA256: the digest of each (key, message) it is asked
    childKey,       \* master_key
    label1,         \* label of the first call
    label2,         \* label of the second call
    outLen,         \* out_len of both calls
    child1,         \* what hkdf_child(childKey, label1, outLen) returned
    child2,         \* what hkdf_child(childKey, label2, outLen) returned
    \* two call chains derive_master_key, hkdf_child, bytes_to_phrase in one
    \* interpreter
    chains,         \* per chain: its arguments, position, locals and results
    emptyStrZeroed, \* the interpreter's shared '' object has been overwritten
    \* one run of run_derivation
    cli,            \* its arguments, position, locals, calls made and status
    printed,        \* the reports and results it has printed
    fs,             \* what each wordlist path names in the file system
    \* bytes_to_phrase applied to two raw values under one wordlist and count
    encPair         \* the arguments, both emitted word lists and both results

normVars == <<phrase, normalised>>
deriveVars == <<rootPhrase, variant, testMode, keyRoot, keyVariant>>
wlVars == <<wlPath, wlText, wlResult>>
encVars == <<encRaw, encWords, encCount, encDelimiter, encResult>>
childVars == <<hmacOracle, childKey, label1, label2, outLen, child1, child2>>
chainVars == <<chains, emptyStrZeroed>>
cliVars == <<cli, printed, fs>>
pairVars == <<encPair>>
vars == <<normVars, deriveVars, wlVars, encVars, childVars, chainVars, cliVars,
          pairVars>>

\* a str result not yet computed (no str of the model holds this element)
NotRun == <<"not_run">>

\* a key not yet derived
NoKey == [alg |-> "none"]

\* the outcome of a call that has not been made, that returned, that raised
NoResult == [kind |-> "not_run"]
Return(v) == [kind |-> "ok", value |-> v]
Raise(type, msg) == [kind |-> "error", error |-> type, msg |-> msg]

-----------------------------------------------------------------------------
(* Bounds of the model                                                     *)

MaxNormLen == 5
MaxFileLen == 6
MaxRawLen == 2
MaxWords == 3
MaxCount == 3
MaxExcess == 2
MaxPhraseLen == 3
MaxVariantLen == 4

-----------------------------------------------------------------------------
(* Characters and the str methods the program uses                         *)

Whitespace == {" ", "\t", "\n"}
Letters == {"a", "A", "b", "B"}
PhraseChars == Letters \cup Whitespace

\* the characters of the root phrase as first typed; retyping reaches the rest
RootChars == {"a", "B", " ", "\n"}

SeqsUpTo(S, n) == UNION {[1..k -> S] : k \in 0..n}

isspace(c) == c \in Whitespace

isupper(c) == c \in {"A", "B", "E", "S", "T"}

\* str.lower() on one character
tolower(c) == CASE c = "A" -> "a" [] c = "B" -> "b" [] c = "E" -> "e"
                [] c = "S" -> "s" [] c = "T" -> "t" [] OTHER -> c

\* the other case of a cased character (str.swapcase on one character)
swapcase(c) == CASE c = "A" -> "a" [] c = "a" -> "A"
                 [] c = "B" -> "b" [] c = "b" -> "B" [] OTHER -> c

\* code point of a character, which is its one UTF-8 byte for ASCII
ord(c) == CASE c = "\t" -> 9 [] c = "\n" -> 10 [] c = " " -> 32
            [] c = "#" -> 35 [] c = "-" -> 45 [] c = "1" -> 49
            [] c = "A" -> 65 [] c = "B" -> 66 [] c = "C" -> 67
            [] c = "D" -> 68 [] c = "E" -> 69 [] c = "H" -> 72
            [] c = "L" -> 76 [] c = "O" -> 79 [] c = "P" -> 80
            [] c = "R" -> 82 [] c = "S" -> 83 [] c = "T" -> 84
            [] c = "V" -> 86 [] c = "_" -> 95
            [] c = "a" -> 97 [] c = "b" -> 98

RECURSIVE lstrip(_)
lstrip(s) == IF s # <<>> /\ isspace(Head(s)) THEN lstrip(Tail(s)) ELSE s

RECURSIVE rstrip(_)
rstrip(s) == IF s # <<>> /\ isspace(s[Len(s)])
             THEN rstrip(SubSeq(s, 1, Len(s) - 1)) ELSE s

\* str.strip()
strip(s) == rstrip(lstrip(s))

\* str.lower()
lower(s) == [i \in 1..Len(s) |-> tolower(s[i])]

\* str.split() with no separator: the maximal runs of non-whitespace
RECURSIVE split_scan(_, _, _)
split_scan(s, cur, acc) ==
    IF s = <<>> THEN (IF cur = <<>> THEN acc ELSE Append(acc, cur))
    ELSE IF isspace(Head(s))
         THEN split_scan(Tail(s), <<>>, IF cur = <<>> THEN acc ELSE Append(acc, cur))
         ELSE split_scan(Tail(s), Append(cur, Head(s)), acc)

split(s) == split_scan(s, <<>>, <<>>)

\* sep.join(parts)
RECURSIVE join(_, _)
join(sep, parts) ==
    IF parts = <<>> THEN <<>>
    ELSE IF Len(parts) = 1 THEN parts[1]
    ELSE parts[1] \o sep \o join(sep, Tail(parts))

\* str.encode('utf-8') on ASCII text
encode_utf8(s) == [i \in 1..Len(s) |-> ord(s[i])]

-----------------------------------------------------------------------------
(* utils.py                                                                *)

normalise_phrase_keeps_case(p) == join(<<" ">>, split(strip(p)))

normalise_phrase_keeps_runs(p) == lower(strip(p))

normalise_phrase(p) == join(<<" ">>, split(lower(strip(p))))

-----------------------------------------------------------------------------
(* wordlist.py: load_wordlist                                              *)

\* iteration over a text file: the lines, each with its "\n" when it has one
RECURSIVE readlines_scan(_, _, _)
readlines_scan(text, cur, acc) ==
    IF text = <<>> THEN (IF cur = <<>> THEN acc ELSE Append(acc, cur))
    ELSE IF Head(text) = "\n"
         THEN readlines_scan(Tail(text), <<>>, Append(acc, Append(cur, "\n")))
         ELSE readlines_scan(Tail(text), Append(cur, Head(text)), acc)

readlines(text) == readlines_scan(text, <<>>, <<>>)

\* str.startswith for a one-character prefix
startswith(s, c) == s # <<>> /\ s[1] = c

wordlist_line_first_token(raw_line) ==
    LET line == strip(raw_line)
        parts == split(line)
    IN  IF line = <<>> \/ startswith(line, "#") THEN <<>>
        ELSE IF Len(parts) = 0 THEN <<>>
        ELSE <<parts[1]>>

\* the body of the loop over the lines: the words one line appends (none or one)
wordlist_line(raw_line) ==
    LET line == strip(raw_line)
        parts == split(line)
    IN  IF line = <<>> \/ startswith(line, "#") THEN <<>>
        ELSE IF Len(parts) = 0 THEN <<>>
        ELSE IF Len(parts) = 1 THEN <<parts[1]>>
        ELSE <<parts[Len(parts)]>>

\* the loop over the lines of the file
RECURSIVE wordlist_words(_)
wordlist_words(lines) ==
    IF lines = <<>> THEN <<>>
    ELSE wordlist_line(Head(lines)) \o wordlist_words(Tail(lines))

load_wordlist_no_empty_check(path, text) ==
    IF path = "missing" THEN Raise("WordlistError", "Wordlist file not found")
    ELSE IF path = "directory" THEN Raise("WordlistError", "Wordlist path is not a file")
    ELSE IF path = "undecodable" THEN Raise("WordlistError", "Failed to decode wordlist file")
    ELSE IF path = "unreadable" THEN Raise("WordlistError", "Failed to read wordlist file")
    ELSE Return(wordlist_words(readlines(text)))

\* path says what the path names; text is the file's decoded content
load_wordlist(path, text) ==
    IF path = "missing" THEN Raise("WordlistError", "Wordlist file not found")
    ELSE IF path = "directory" THEN Raise("WordlistError", "Wordlist path is not a file")
    ELSE IF path = "undecodable" THEN Raise("WordlistError", "Failed to decode wordlist file")
    ELSE IF path = "unreadable" THEN Raise("WordlistError", "Failed to read wordlist file")
    ELSE LET words == wordlist_words(readlines(text))
         IN  IF words = <<>> THEN Raise("WordlistError", "Wordlist is empty")
             ELSE Return(words)

-----------------------------------------------------------------------------
(* wordlist.py: bytes_to_phrase                                            *)

RECURSIVE int_from_bytes_little(_)
int_from_bytes_little(raw) ==
    IF raw = <<>> THEN 0
    ELSE Head(raw) + 256 * int_from_bytes_little(Tail(raw))

\* int.from_bytes(raw, "big")
RECURSIVE int_from_bytes_scan(_, _)
int_from_bytes_scan(raw, acc) ==
    IF raw = <<>> THEN acc
    ELSE int_from_bytes_scan(Tail(raw), acc * 256 + Head(raw))

int_from_bytes(raw) == int_from_bytes_scan(raw, 0)

RECURSIVE phrase_words_one_short(_, _, _)
phrase_words_one_short(num, words, n) ==
    IF n <= 1 THEN <<>>
    ELSE <<words[(num % Len(words)) + 1]>>
         \o phrase_words_one_short(num \div Len(words), words, n - 1)

\* a loop that stops emitting once the running quotient is exhausted
RECURSIVE phrase_words_stops_at_zero(_, _, _)
phrase_words_stops_at_zero(num, words, n) ==
    IF n <= 0 \/ num = 0 THEN <<>>
    ELSE <<words[(num % Len(words)) + 1]>>
         \o phrase_words_stops_at_zero(num \div Len(words), words, n - 1)

\* a loop that never divides the running quotient
RECURSIVE phrase_words_keeps_num(_, _, _)
phrase_words_keeps_num(num, words, n) ==
    IF n <= 0 THEN <<>>
    ELSE <<words[(num % Len(words)) + 1]>>
         \o phrase_words_keeps_num(num, words, n - 1)

\* the loop "for _ in range(word_count)" with n rounds left
RECURSIVE phrase_words(_, _, _)
phrase_words(num, words, n) ==
    IF n <= 0 THEN <<>>
    ELSE <<words[(num % Len(words)) + 1]>>
         \o phrase_words(num \div Len(words), words, n - 1)

bytes_to_phrase(raw, words, word_count, delimiter) ==
    LET num == int_from_bytes(raw)
        base == Len(words)
    IN  IF word_count >= 1 /\ base = 0
        THEN Raise("ZeroDivisionError", "integer modulo by zero")
        ELSE Return(join(delimiter, phrase_words(num, words, word_count)))

-----------------------------------------------------------------------------
(* constants.py                                                            *)

ARGON2_MEMORY_COST == 256 * 1024
ARGON2_TIME_COST == 3
ARGON2_PARALLELISM == 1
ARGON2_HASH_LENGTH == 32
ARGON2_TEST_MEMORY_COST == 8 * 1024
ARGON2_TEST_TIME_COST == 1
ARGON2_TEST_PARALLELISM == 1
ROOT_SALT_V1 == "family-password-root-v1"
LABEL_HOT == <<"H", "O", "T", "_", "P", "H", "R", "A", "S", "E", "_", "V", "1">>
LABEL_COLD == <<"C", "O", "L", "D", "_", "P", "H", "R", "A", "S", "E", "_", "V", "1">>
DEFAULT_DELIMITER == <<"-">>

-----------------------------------------------------------------------------
(* derive.py: derive_master_key                                            *)

\* argon2.low_level.hash_secret_raw with type=Type.ID: an ideal hash, the
\* term of its arguments (two calls agree exactly when all arguments agree)
hash_secret_raw(secret, salt, time_cost, memory_cost, parallelism, hash_len) ==
    [alg |-> "argon2id", secret |-> secret, salt |-> salt,
     time_cost |-> time_cost, memory_cost |-> memory_cost,
     parallelism |-> parallelism, hash_len |-> hash_len]

derive_master_key_swapped_modes(root_phrase, test_mode) ==
    LET phrase_bytes == encode_utf8(normalise_phrase(root_phrase))
    IN  IF ~test_mode
        THEN hash_secret_raw(phrase_bytes, ROOT_SALT_V1, ARGON2_TEST_TIME_COST,
                             ARGON2_TEST_MEMORY_COST, ARGON2_TEST_PARALLELISM,
                             ARGON2_HASH_LENGTH)
        ELSE hash_secret_raw(phrase_bytes, ROOT_SALT_V1, ARGON2_TIME_COST,
                             ARGON2_MEMORY_COST, ARGON2_PARALLELISM,
                             ARGON2_HASH_LENGTH)

derive_master_key(root_phrase, test_mode) ==
    LET normalised_phrase == normalise_phrase(root_phrase)
        phrase_bytes == encode_utf8(normalised_phrase)
    IN  IF test_mode
        THEN hash_secret_raw(phrase_bytes, ROOT_SALT_V1, ARGON2_TEST_TIME_COST,
                             ARGON2_TEST_MEMORY_COST, ARGON2_TEST_PARALLELISM,
                             ARGON2_HASH_LENGTH)
        ELSE hash_secret_raw(phrase_bytes, ROOT_SALT_V1, ARGON2_TIME_COST,
                             ARGON2_MEMORY_COST, ARGON2_PARALLELISM,
                             ARGON2_HASH_LENGTH)

-----------------------------------------------------------------------------
(* derive.py: hkdf_child                                                   *)

\* hashlib.sha256().digest_size
SHA256_DIGEST_SIZE == 32

\* the slice s[-n:], the last n bytes, taken for the first n
slice_last(s, n) ==
    IF n >= Len(s) \/ n <= 0 THEN s ELSE SubSeq(s, Len(s) - n + 1, Len(s))

\* the slice s[:n] of Python: a negative n counts from the end
slice_to(s, n) ==
    IF n >= 0 THEN SubSeq(s, 1, IF n < Len(s) THEN n ELSE Len(s))
    ELSE SubSeq(s, 1, IF Len(s) + n > 0 THEN Len(s) + n ELSE 0)

\* hmac.new(key, msg, hashlib.sha256).digest()
hmac_sha256_digest(key, msg) == hmacOracle[<<key, msg>>]

hkdf_child_one_byte_short(master_key, label, out_len) ==
    Return(slice_to(hmac_sha256_digest(master_key, encode_utf8(label)), out_len - 1))

hkdf_child(master_key, label, out_len) ==
    LET label_bytes == encode_utf8(label)
    IN  Return(slice_to(hmac_sha256_digest(master_key, label_bytes), out_len))

\* the default of the parameter out_len (derive.py 76)
HKDF_DEFAULT_OUT_LEN == 32

\* hkdf_child(master_key, label) called without out_len
hkdf_child_default(master_key, label) ==
    hkdf_child(master_key, label, HKDF_DEFAULT_OUT_LEN)

-----------------------------------------------------------------------------
(* Specification SpecNormalise: normalise_phrase on every bounded phrase   *)

NormIdle == /\ phrase = <<>>
            /\ normalised = NotRun

WlIdle == /\ wlPath = "missing"
          /\ wlText = <<>>
          /\ wlResult = NoResult

EncIdle == /\ encRaw = <<>>
           /\ encWords = <<>>
           /\ encCount = 0
           /\ encDelimiter = <<>>
           /\ encResult = NoResult

ChildIdle == /\ hmacOracle = <<>>
             /\ childKey = NoKey
             /\ label1 = <<>>
             /\ label2 = <<>>
             /\ outLen = 0
             /\ child1 = NoResult
             /\ child2 = NoResult

DeriveIdle == /\ rootPhrase = <<>>
              /\ variant = <<>>
              /\ testMode = FALSE
              /\ keyRoot = NoKey
              /\ keyVariant = NoKey

ChainsIdle == /\ chains = <<>>
              /\ emptyStrZeroed = FALSE

PairIdle == encPair = <<>>

CliIdle == /\ cli = <<>>
           /\ printed = {}
           /\ fs = <<>>

InitNormalise ==
    /\ phrase \in SeqsUpTo(PhraseChars, MaxNormLen)
    /\ normalised = NotRun
    /\ DeriveIdle
    /\ WlIdle
    /\ EncIdle
    /\ ChildIdle
    /\ ChainsIdle
    /\ CliIdle
    /\ PairIdle

Normalise ==
    /\ normalised = NotRun
    /\ normalised' = normalise_phrase(phrase)
    /\ UNCHANGED <<phrase, deriveVars, wlVars, encVars, childVars, chainVars, cliVars,
                   pairVars>>

NextNormalise == Normalise

SpecNormalise == InitNormalise /\ [][NextNormalise]_vars

\* C2: normalise_phrase is idempotent, and its result has no leading or
\* trailing whitespace, no uppercase letter, and no whitespace other than
\* single ASCII spaces between tokens.
C2_NormaliseIdempotentCanonical ==
    normalised # NotRun =>
        /\ normalise_phrase(normalised) = normalised
        /\ normalised # <<>> =>
              /\ ~isspace(normalised[1])
              /\ ~isspace(normalised[Len(normalised)])
        /\ \A i \in 1..Len(normalised) :
              /\ ~isupper(normalised[i])
              /\ isspace(normalised[i]) =>
                    /\ normalised[i] = " "
                    /\ i < Len(normalised)
                    /\ ~isspace(normalised[i + 1])

\* a phrase with padding, a mixed-kind whitespace run and an uppercase letter
\* has been normalised to two tokens
C2_Witness ==
    /\ normalised = <<"a", " ", "b">>
    /\ phrase = <<" ", "A", "\t", "\n", "b">>

-----------------------------------------------------------------------------
(* Specification SpecDerive: derive_master_key on a phrase and on a copy   *)
(* of it retyped with different spacing and letter case                    *)

InitDerive ==
    /\ rootPhrase \in SeqsUpTo(RootChars, MaxPhraseLen)
    /\ variant = rootPhrase
    /\ testMode \in BOOLEAN
    /\ keyRoot = NoKey
    /\ keyVariant = NoKey
    /\ NormIdle
    /\ WlIdle
    /\ EncIdle
    /\ ChildIdle
    /\ ChainsIdle
    /\ CliIdle
    /\ PairIdle

InsertAt(s, i, c) == SubSeq(s, 1, i - 1) \o <<c>> \o SubSeq(s, i, Len(s))
RemoveAt(s, i) == SubSeq(s, 1, i - 1) \o SubSeq(s, i + 1, Len(s))

Retyped(v) ==
    /\ variant' = v
    /\ keyRoot' = NoKey
    /\ keyVariant' = NoKey
    /\ UNCHANGED <<rootPhrase, testMode, normVars, wlVars, encVars, childVars,
                   chainVars, cliVars, pairVars>>

\* one more whitespace character in front of or after the phrase
PadEnds ==
    /\ Len(variant) < MaxVariantLen
    /\ \E w \in Whitespace :
          \/ Retyped(<<w>> \o variant)
          \/ Retyped(variant \o <<w>>)

\* one leading or trailing whitespace character less
TrimEnds ==
    /\ variant # <<>>
    /\ \/ isspace(variant[1]) /\ Retyped(Tail(variant))
       \/ /\ isspace(variant[Len(variant)])
          /\ Retyped(SubSeq(variant, 1, Len(variant) - 1))

\* an internal whitespace run made one character longer
LengthenRun ==
    /\ Len(variant) < MaxVariantLen
    /\ \E i \in 1..Len(variant), w \in Whitespace :
          /\ isspace(variant[i])
          /\ Retyped(InsertAt(variant, i, w))

\* a whitespace run of two or more characters made one character shorter
ShortenRun ==
    \E i \in 1..(Len(variant) - 1) :
        /\ isspace(variant[i])
        /\ isspace(variant[i + 1])
        /\ Retyped(RemoveAt(variant, i))

\* a whitespace character replaced by one of another kind
ChangeKind ==
    \E i \in 1..Len(variant), w \in Whitespace :
        /\ isspace(variant[i])
        /\ w # variant[i]
        /\ Retyped([variant EXCEPT ![i] = w])

\* a letter replaced by the same letter in the other case
ChangeCase ==
    \E i \in 1..Len(variant) :
        /\ variant[i] \in Letters
        /\ Retyped([variant EXCEPT ![i] = swapcase(variant[i])])

\* derive_master_key called on both spellings under the same mode
DeriveBoth ==
    /\ keyRoot = NoKey
    /\ keyRoot' = derive_master_key(rootPhrase, testMode)
    /\ keyVariant' = derive_master_key(variant, testMode)
    /\ UNCHANGED <<rootPhrase, variant, testMode, normVars, wlVars, encVars,
                   childVars, chainVars, cliVars, pairVars>>

NextDerive ==
    \/ PadEnds
    \/ TrimEnds
    \/ LengthenRun
    \/ ShortenRun
    \/ ChangeKind
    \/ ChangeCase
    \/ DeriveBoth

SpecDerive == InitDerive /\ [][NextDerive]_vars

C10_CostParametersByMode ==
    keyRoot # NoKey =>
        /\ keyRoot.alg = "argon2id"
        /\ keyRoot.salt = "family-password-root-v1"
        /\ keyRoot.hash_len = 32
        /\ keyRoot.parallelism = 1
        /\ ~testMode => keyRoot.memory_cost = 262144 /\ keyRoot.time_cost = 3
        /\ testMode => keyRoot.memory_cost = 8192 /\ keyRoot.time_cost = 1

\* a key derived in standard mode from a phrase of the longest length
C10_Witness ==
    /\ keyRoot # NoKey
    /\ ~testMode
    /\ keyRoot.memory_cost = 262144
    /\ Len(rootPhrase) = MaxPhraseLen

-----------------------------------------------------------------------------
(* Specification SpecWordlist: load_wordlist on every bounded file         *)

FileChars == {"a", "1", "#", " ", "\n"}
PathKinds == {"missing", "directory", "undecodable", "unreadable", "file"}

InitWordlist ==
    /\ wlPath \in PathKinds
    /\ wlText \in (IF wlPath = "file" THEN SeqsUpTo(FileChars, MaxFileLen) ELSE {<<>>})
    /\ wlResult = NoResult
    /\ NormIdle
    /\ DeriveIdle
    /\ EncIdle
    /\ ChildIdle
    /\ ChainsIdle
    /\ CliIdle
    /\ PairIdle

LoadWordlist ==
    /\ wlResult = NoResult
    /\ wlResult' = load_wordlist(wlPath, wlText)
    /\ UNCHANGED <<wlPath, wlText, normVars, deriveVars, encVars, childVars,
                   chainVars, cliVars, pairVars>>

NextWordlist == LoadWordlist

SpecWordlist == InitWordlist /\ [][NextWordlist]_vars

\* The claims' own reading of the file, by positions in the text: line k lies
\* between the (k-1)-th and the k-th "\n".
NewlinesBefore(text, i) == Cardinality({j \in 1..(i - 1) : text[j] = "\n"})
LineCount(text) == NewlinesBefore(text, Len(text) + 1) + 1
LineAt(text, k) ==
    LET idx == {i \in 1..Len(text) : text[i] # "\n" /\ NewlinesBefore(text, i) + 1 = k}
    IN  IF idx = {} THEN <<>>
        ELSE LET lo == CHOOSE i \in idx : \A j \in idx : i <= j
             IN  [n \in 1..Cardinality(idx) |-> text[lo + n - 1]]
InkAt(line) == {i \in 1..Len(line) : ~isspace(line[i])}
IsWordLine(line) ==
    /\ InkAt(line) # {}
    /\ line[CHOOSE i \in InkAt(line) : \A j \in InkAt(line) : i <= j] # "#"
LastToken(line) ==
    LET last == CHOOSE i \in InkAt(line) : \A j \in InkAt(line) : j <= i
        gaps == {i \in 1..last : isspace(line[i])}
        from == IF gaps = {} THEN 1
                ELSE 1 + CHOOSE i \in gaps : \A j \in gaps : j <= i
    IN  SubSeq(line, from, last)
WordLines(text) == {k \in 1..LineCount(text) : IsWordLine(LineAt(text, k))}

\* C5: load_wordlist returns exactly one word per line that is neither blank
\* nor a comment, that line's last whitespace-separated token, in file order;
\* nothing is dropped or deduplicated.
C5_OneTrailingTokenPerLine ==
    (wlResult # NoResult /\ wlPath = "file" /\ WordLines(wlText) # {}) =>
        /\ wlResult.kind = "ok"
        /\ Len(wlResult.value) = Cardinality(WordLines(wlText))
        /\ \A k \in WordLines(wlText) :
              LET pos == Cardinality({j \in WordLines(wlText) : j <= k})
              IN  wlResult.value[pos] = LastToken(LineAt(wlText, k))

\* an indexed line and a bare line repeating the same word: both are kept
C5_Witness ==
    /\ wlText = <<"1", " ", "a", "\n", "a">>
    /\ wlResult = Return(<<(<<"a">>), (<<"a">>)>>)

\* C6: load_wordlist never returns an empty list: a file that reduces to zero
\* words (only blank and comment lines, or no lines) raises "Wordlist is empty".
C6_EmptyWordlistRejected ==
    wlResult # NoResult =>
        /\ wlResult.kind = "ok" => wlResult.value # <<>>
        /\ (wlPath = "file" /\ WordLines(wlText) = {}) =>
              wlResult = Raise("WordlistError", "Wordlist is empty")

\* a file of one comment line and one blank line has been rejected
C6_Witness ==
    /\ wlText = <<"#", " ", "a", "\n", " ", "\n">>
    /\ wlResult = Raise("WordlistError", "Wordlist is empty")

-----------------------------------------------------------------------------
(* Specification SpecEncode: bytes_to_phrase on every bounded argument list *)
(* (word_count is what the CLI passes from --words, any int: cli.py 208)   *)

ByteVals == {0, 1, 2, 255}
WordPool == {<<"a">>, <<"b">>, <<"a", "-", "b">>}
Delimiters == {<<"-">>, <<" ">>, <<>>}

InitEncode ==
    /\ encRaw \in SeqsUpTo(ByteVals, MaxRawLen)
    /\ encWords \in SeqsUpTo(WordPool, MaxWords)
    /\ encCount \in (-1)..MaxCount
    /\ encDelimiter \in Delimiters
    /\ encResult = NoResult
    /\ NormIdle
    /\ DeriveIdle
    /\ WlIdle
    /\ ChildIdle
    /\ ChainsIdle
    /\ CliIdle
    /\ PairIdle

BytesToPhrase ==
    /\ encResult = NoResult
    /\ encResult' = bytes_to_phrase(encRaw, encWords, encCount, encDelimiter)
    /\ UNCHANGED <<encRaw, encWords, encCount, encDelimiter,
                   normVars, deriveVars, wlVars, childVars, chainVars, cliVars,
                   pairVars>>

NextEncode == BytesToPhrase

SpecEncode == InitEncode /\ [][NextEncode]_vars

\* raw read as one big-endian unsigned integer: byte i weighs 256^(Len - i)
BigEndianValue(raw) ==
    LET partial[k \in 0..Len(raw)] ==
            IF k = 0 THEN 0
            ELSE partial[k - 1] + raw[k] * 256 ^ (Len(raw) - k)
    IN  partial[Len(raw)]

\* C3: for a non-empty wordlist and count >= 1 the i-th emitted word
\* (i = 0..count-1) is words[(N div len(words)^i) mod len(words)], N being raw
\* as a big-endian integer; the words are joined in that order.
C3_PositionalDigits ==
    (encResult # NoResult /\ encWords # <<>> /\ encCount >= 1) =>
        LET N == BigEndianValue(encRaw)
            base == Len(encWords)
            digits == [i \in 1..encCount |->
                          encWords[((N \div base ^ (i - 1)) % base) + 1]]
        IN  encResult = Return(join(encDelimiter, digits))

\* raw = 01 02 (N = 258) in base 3 with three distinct words: digits 0, 2, 1
C3_Witness ==
    /\ encRaw = <<1, 2>>
    /\ encWords = <<(<<"a">>), (<<"b">>), (<<"a", "-", "b">>)>>
    /\ encCount = 3
    /\ encDelimiter = <<" ">>
    /\ encResult = Return(<<"a", " ", "a", "-", "b", " ", "b">>)

\* C4: for a non-empty wordlist the output is exactly count words of the
\* wordlist joined by the delimiter.
C4_CountSegmentsFromWordlist ==
    (encResult # NoResult /\ encWords # <<>> /\ encCount >= 1) =>
        /\ encResult.kind = "ok"
        /\ \E segs \in [1..encCount -> {encWords[i] : i \in 1..Len(encWords)}] :
              encResult.value = join(encDelimiter, segs)

\* three words of a two-word list joined by "-"
C4_Witness ==
    /\ encWords = <<(<<"a">>), (<<"b">>)>>
    /\ encCount = 3
    /\ encDelimiter = <<"-">>
    /\ encRaw = <<2>>
    /\ encResult = Return(<<"a", "-", "b", "-", "a">>)

\* C9: a word count that is not positive is rejected: bytes_to_phrase renders
\* no passphrase for count <= 0.
C9_NonPositiveCountRejected ==
    (encResult # NoResult /\ encWords # <<>> /\ encCount <= 0) =>
        encResult.kind = "error"

\* C19: once the running quotient N div len(words)^z is zero at position z,
\* every word at position z and later is words[0]: the output is some z words
\* of the wordlist followed by count - z copies of the first word.
C19_ExhaustedQuotientEmitsFirstWord ==
    (encResult # NoResult /\ encWords # <<>> /\ encCount >= 1) =>
        \A z \in 0..(encCount - 1) :
            (BigEndianValue(encRaw) \div Len(encWords) ^ z = 0) =>
                \E head \in [1..z -> {encWords[i] : i \in 1..Len(encWords)}] :
                    encResult =
                        Return(join(encDelimiter,
                                    [i \in 1..encCount |->
                                        IF i <= z THEN head[i]
                                        ELSE encWords[1]]))

\* raw = 01 (N = 1) in base 2: the quotient is zero from position 1 on, so
\* positions 1 and 2 both emit the first word "b"
C19_Witness ==
    /\ encRaw = <<1>>
    /\ encWords = <<(<<"b">>), (<<"a">>)>>
    /\ encCount = 3
    /\ encDelimiter = <<"-">>
    /\ encResult = Return(<<"a", "-", "b", "-", "b">>)

-----------------------------------------------------------------------------
(* Specification SpecEncodePair: bytes_to_phrase on two raw values under   *)
(* the same wordlist, count and delimiter                                  *)

\* raw values with equal and with different integers, among them values
\* congruent modulo 4, 8, 9 and 27, and one with a leading zero byte
PairRaws == {<<>>, <<0>>, <<1>>, <<0, 1>>, <<2>>, <<4>>, <<5>>, <<8>>, <<9>>,
             <<27>>, <<1, 0>>, <<255, 255>>}

\* the list phrase_words when the loop has ended (wordlist.py 151-157)
emitted_words(raw, words, word_count) ==
    phrase_words(int_from_bytes(raw), words, word_count)

InitEncodePair ==
    /\ \E raw1, raw2 \in PairRaws, words \in SeqsUpTo(WordPool, MaxWords),
          word_count \in 0..MaxCount :
          encPair = [raw1 |-> raw1, raw2 |-> raw2, words |-> words,
                     word_count |-> word_count, delimiter |-> DEFAULT_DELIMITER,
                     phrase_words1 |-> <<>>, phrase_words2 |-> <<>>,
                     result1 |-> NoResult, result2 |-> NoResult]
    /\ NormIdle
    /\ DeriveIdle
    /\ WlIdle
    /\ EncIdle
    /\ ChildIdle
    /\ ChainsIdle
    /\ CliIdle

\* both calls; a call that raises leaves no word list
BytesToPhrasePair ==
    /\ encPair.result1 = NoResult
    /\ LET result1 == bytes_to_phrase(encPair.raw1, encPair.words,
                                      encPair.word_count, encPair.delimiter)
           result2 == bytes_to_phrase(encPair.raw2, encPair.words,
                                      encPair.word_count, encPair.delimiter)
       IN  encPair' = [encPair EXCEPT
               !.result1 = result1,
               !.result2 = result2,
               !.phrase_words1 =
                   IF result1.kind = "ok"
                   THEN emitted_words(encPair.raw1, encPair.words,
                                      encPair.word_count)
                   ELSE <<>>,
               !.phrase_words2 =
                   IF result2.kind = "ok"
                   THEN emitted_words(encPair.raw2, encPair.words,
                                      encPair.word_count)
                   ELSE <<>>]
    /\ UNCHANGED <<normVars, deriveVars, wlVars, encVars, childVars, chainVars,
                   cliVars>>

NextEncodePair == BytesToPhrasePair

SpecEncodePair == InitEncodePair /\ [][NextEncodePair]_vars

DistinctWords(words) ==
    \A i, j \in 1..Len(words) : i # j => words[i] # words[j]

\* the index of a word of a wordlist of distinct words, counted from 0
WordIndex(words, w) == CHOOSE d \in 0..(Len(words) - 1) : words[d + 1] = w

\* the sum of d_i * base^i over the indices d_0, d_1, ... of a word list
IndexValue(words, emitted) ==
    LET partial[k \in 0..Len(emitted)] ==
            IF k = 0 THEN 0
            ELSE partial[k - 1]
                 + WordIndex(words, emitted[k]) * Len(words) ^ (k - 1)
    IN  partial[Len(emitted)]

\* C22: for a wordlist of distinct words, base = len(words) >= 2 and
\* count >= 1, two raw values emit the same word sequence exactly when their
\* big-endian integers are congruent modulo base^count, and N mod base^count
\* is the sum of d_i * base^i over the emitted word indices d_0..d_{count-1}.
C22_NoInformationLostBelowBasePowCount ==
    (encPair.result1 # NoResult /\ DistinctWords(encPair.words)
        /\ Len(encPair.words) >= 2 /\ encPair.word_count >= 1) =>
        LET modulus == Len(encPair.words) ^ encPair.word_count
            N1 == BigEndianValue(encPair.raw1)
            N2 == BigEndianValue(encPair.raw2)
        IN  /\ encPair.result1.kind = "ok"
            /\ encPair.result2.kind = "ok"
            /\ Len(encPair.phrase_words1) = encPair.word_count
            /\ Len(encPair.phrase_words2) = encPair.word_count
            /\ (encPair.phrase_words1 = encPair.phrase_words2)
                   <=> (N1 % modulus = N2 % modulus)
            /\ IndexValue(encPair.words, encPair.phrase_words1) = N1 % modulus
            /\ IndexValue(encPair.words, encPair.phrase_words2) = N2 % modulus

\* 1 and 9 are congruent modulo 2^3: both emit the words of indices 1, 0, 0
C22_Witness ==
    /\ encPair.raw1 = <<1>>
    /\ encPair.raw2 = <<9>>
    /\ encPair.words = <<(<<"a">>), (<<"b">>)>>
    /\ encPair.word_count = 3
    /\ encPair.phrase_words1 = <<(<<"b">>), (<<"a">>), (<<"a">>)>>
    /\ encPair.phrase_words2 = encPair.phrase_words1
    /\ encPair.result1 = Return(<<"b", "-", "a", "-", "a">>)

-----------------------------------------------------------------------------
(* Specification SpecChild: hkdf_child on one master key and two labels    *)

\* Digests HMAC-SHA256 may return: all zero, or zero but for one byte. Two
\* of them differ, and agree on the prefix before the first byte that is set.
DigestSetAt(k) == [i \in 1..SHA256_DIGEST_SIZE |-> IF i = k THEN 1 ELSE 0]
DigestPool == {DigestSetAt(k) : k \in {0, 1, 2, SHA256_DIGEST_SIZE - 1, SHA256_DIGEST_SIZE}}

Labels == {LABEL_HOT, LABEL_COLD, <<"a">>}
MasterKeys == {derive_master_key(<<"a">>, TRUE), derive_master_key(<<"b">>, FALSE)}

Injective(f) == \A x, y \in DOMAIN f : x # y => f[x] # f[y]

InitChild ==
    /\ childKey \in MasterKeys
    /\ label1 \in Labels
    /\ label2 \in Labels
    /\ outLen \in 0..(SHA256_DIGEST_SIZE + MaxExcess)
    \* HMAC-SHA256 taken as collision-free and otherwise arbitrary
    /\ hmacOracle \in {f \in [{<<childKey, encode_utf8(label1)>>,
                               <<childKey, encode_utf8(label2)>>} -> DigestPool] :
                          Injective(f)}
    /\ child1 = NoResult
    /\ child2 = NoResult
    /\ NormIdle
    /\ DeriveIdle
    /\ WlIdle
    /\ EncIdle
    /\ ChainsIdle
    /\ CliIdle
    /\ PairIdle

HkdfChildBoth ==
    /\ child1 = NoResult
    /\ child1' = hkdf_child(childKey, label1, outLen)
    /\ child2' = hkdf_child(childKey, label2, outLen)
    /\ UNCHANGED <<hmacOracle, childKey, label1, label2, outLen,
                   normVars, deriveVars, wlVars, encVars, chainVars, cliVars,
                   pairVars>>

NextChild == HkdfChildBoth

SpecChild == InitChild /\ [][NextChild]_vars

\* C7 as claimed: for every master key, distinct labels and every out_len the
\* expander accepts, the two child keys differ.
C7_DomainSeparationAnyLength ==
    (child1 # NoResult /\ label1 # label2) => child1 # child2

\* C7 as amended: distinct labels give distinct child keys when out_len is 32
\* or more, that is when the whole digest is returned.
C7_DomainSeparationFullDigest ==
    (child1 # NoResult /\ label1 # label2 /\ outLen >= SHA256_DIGEST_SIZE) =>
        child1 # child2

\* HOT and COLD child keys of 32 bytes whose digests differ in the last byte only
C7_Witness ==
    /\ child1 # NoResult
    /\ label1 = LABEL_HOT
    /\ label2 = LABEL_COLD
    /\ outLen = 32
    /\ slice_to(child1.value, 31) = slice_to(child2.value, 31)
    /\ child1 # child2

\* C8: out_len greater than 32 is a usage error: hkdf_child fails and never
\* returns a result shorter than the requested out_len.
C8_OversizeLengthRejected ==
    (child1 # NoResult /\ outLen > 32) =>
        /\ child1.kind = "error"
        /\ child2.kind = "error"

\* C21: for out_len in 0..32 the child key has exactly out_len bytes and is
\* the first out_len bytes of the child key of 32 bytes for the same master
\* key and label; without out_len the child key has 32 bytes.
C21_TruncationIsPrefix ==
    (child1 # NoResult /\ outLen \in 0..32) =>
        LET full == hkdf_child(childKey, label1, 32)
        IN  /\ child1.kind = "ok"
            /\ full.kind = "ok"
            /\ Len(child1.value) = outLen
            /\ child1.value = [i \in 1..outLen |-> full.value[i]]
            /\ hkdf_child_default(childKey, label1).kind = "ok"
            /\ Len(hkdf_child_default(childKey, label1).value) = 32

\* two bytes asked of a digest whose second byte is set: the child key is
\* 00 01, the first two bytes of that digest
C21_Witness ==
    /\ outLen = 2
    /\ label1 = LABEL_HOT
    /\ hmacOracle[<<childKey, encode_utf8(label1)>>] = DigestSetAt(2)
    /\ child1 = Return(<<0, 1>>)


-----------------------------------------------------------------------------
(* security.py: secure_clear_string, secure_clear_bytes                    *)

\* a str object: its text, and whether its memory has been overwritten
StrObject(text) == [text |-> text, zeroed |-> FALSE]
NoStr == [text |-> NotRun, zeroed |-> FALSE]

\* ctypes.memset(id(s), 0, sys.getsizeof(s)): every byte of the object, its
\* header with length and type included, becomes zero
secure_clear_string(s) == [text |-> <<>>, zeroed |-> TRUE]

\* ctypes.memset(id(b) + sys.getsizeof(b) - len(b), 0, len(b)): the range
\* starts one byte after the first data byte, so that byte keeps its value
secure_clear_bytes(b) == [i \in 1..Len(b) |-> IF i = 1 THEN b[i] ELSE 0]

\* CPython hands out one shared object for every empty str; the result of
\* normalise_phrase is that object exactly when the normalised text is empty
IsSharedEmptyStr(s) == s.text = <<>> /\ ~s.zeroed

-----------------------------------------------------------------------------
(* Specification SpecChains: two call chains derive_master_key, hkdf_child, *)
(* bytes_to_phrase on different root phrases, interleaved step by step in  *)
(* one interpreter                                                         *)

Chains == {1, 2}
ChainPhrases == {<<>>, <<" ">>, <<"a">>, <<"a", " ", "b">>}
ChainWords == <<(<<"a">>), (<<"b">>)>>
ChainWordCount == 2
\* digests whose big-endian value is 0, 256 and 1
ChainDigests == {DigestSetAt(0), DigestSetAt(31), DigestSetAt(32)}
Argon2Faults == {"none", "memory"}
None == <<"None">>

\* low_level.hash_secret_raw returns the hash, or raises the library's
\* HashingError when the argon2 core reports ARGON2_MEMORY_ALLOCATION_ERROR
hash_secret_raw_never_fails(fault, hash) == Return(hash)

hash_secret_raw_outcome(fault, hash) ==
    IF fault = "memory"
    THEN Raise("HashingError", "Memory allocation error")
    ELSE Return(hash)

\* where control goes when the try body (derive.py 46-68) has ended: a plain
\* try/except would skip the clearing when the body raised
after_try_without_finally(outcome) ==
    IF outcome.kind = "ok" THEN "clear_string" ELSE "raised"

\* the finally clause runs after a return and after a raise alike
after_try(outcome) == "clear_string"

\* what the caller receives when the finally clause has ended: the pending
\* result or exception of the try body, unless the clause itself raised
finally_outcome(pending, clause) ==
    IF clause.kind = "error" THEN clause ELSE pending

NewChain(p, t) ==
    [root_phrase |-> p, test_mode |-> t, pc |-> "call",
     normalised_phrase |-> NoStr, phrase_bytes |-> <<>>, fault |-> "none",
     pending |-> NoResult, cleared |-> {}, master_key |-> NoResult,
     child |-> NoResult, passphrase |-> NoResult]

InitChains ==
    /\ \E p1, p2 \in ChainPhrases, t \in BOOLEAN :
          /\ p1 # p2
          /\ chains = [c \in Chains |-> NewChain(IF c = 1 THEN p1 ELSE p2, t)]
          /\ hmacOracle \in
                {f \in [{<<derive_master_key(p, t), encode_utf8(LABEL_HOT)>> :
                            p \in {p1, p2}} -> ChainDigests] : Injective(f)}
    /\ emptyStrZeroed = FALSE
    /\ CliIdle
    /\ PairIdle
    /\ childKey = NoKey
    /\ label1 = <<>>
    /\ label2 = <<>>
    /\ outLen = 0
    /\ child1 = NoResult
    /\ child2 = NoResult
    /\ NormIdle
    /\ DeriveIdle
    /\ WlIdle
    /\ EncIdle

ProcessAlive == \A c \in Chains : chains[c].pc # "crashed"

\* derive.py 41-44: normalise the phrase and encode it
ChainNormalise(c) ==
    /\ ProcessAlive
    /\ chains[c].pc = "call"
    /\ LET text == normalise_phrase(chains[c].root_phrase)
           proceeds ==
               chains' = [chains EXCEPT
                   ![c].normalised_phrase = StrObject(text),
                   ![c].phrase_bytes = encode_utf8(text),
                   ![c].pc = "hash"]
       IN  IF strip(chains[c].root_phrase) = <<>> /\ emptyStrZeroed
           \* strip() yields the shared '' object and lower() is called on
           \* its overwritten header: undefined behaviour, which ends the
           \* process with a segmentation fault or goes unnoticed
           THEN \/ chains' = [chains EXCEPT ![c].pc = "crashed"]
                \/ proceeds
           ELSE proceeds
    /\ UNCHANGED <<emptyStrZeroed, normVars, deriveVars, wlVars, encVars, childVars,
                   cliVars, pairVars>>

\* derive.py 46-68: the try body, the call of the memory-hard primitive
ChainHash(c) ==
    /\ ProcessAlive
    /\ chains[c].pc = "hash"
    /\ \E fault \in Argon2Faults :
          LET outcome == hash_secret_raw_outcome(fault,
                             derive_master_key(chains[c].root_phrase,
                                               chains[c].test_mode))
          IN  chains' = [chains EXCEPT ![c].fault = fault,
                                       ![c].pending = outcome,
                                       ![c].pc = after_try(outcome)]
    /\ UNCHANGED <<emptyStrZeroed, normVars, deriveVars, wlVars, encVars, childVars,
                   cliVars, pairVars>>

\* derive.py 72: secure_clear_string(normalised_phrase)
ChainClearString(c) ==
    /\ ProcessAlive
    /\ chains[c].pc = "clear_string"
    /\ emptyStrZeroed' =
           (emptyStrZeroed \/ IsSharedEmptyStr(chains[c].normalised_phrase))
    /\ chains' = [chains EXCEPT
           ![c].normalised_phrase = secure_clear_string(@),
           ![c].cleared = @ \cup {"normalised_phrase"},
           ![c].pc = "clear_bytes"]
    /\ UNCHANGED <<normVars, deriveVars, wlVars, encVars, childVars,
                   cliVars, pairVars>>

\* derive.py 73: secure_clear_bytes(phrase_bytes), then control returns to
\* the caller with the result or the exception of the try body
ChainClearBytes(c) ==
    /\ ProcessAlive
    /\ chains[c].pc = "clear_bytes"
    /\ LET delivered == finally_outcome(chains[c].pending, Return(None))
       IN  chains' = [chains EXCEPT
               ![c].phrase_bytes = secure_clear_bytes(@),
               ![c].cleared = @ \cup {"phrase_bytes"},
               ![c].master_key = delivered,
               ![c].pc = IF delivered.kind = "ok" THEN "derived" ELSE "raised"]
    /\ UNCHANGED <<emptyStrZeroed, normVars, deriveVars, wlVars, encVars, childVars,
                   cliVars, pairVars>>

\* derive.py 76-91: hkdf_child(master_key, LABEL_HOT, 32)
ChainExpand(c) ==
    /\ ProcessAlive
    /\ chains[c].pc = "derived"
    /\ chains' = [chains EXCEPT
           ![c].child = hkdf_child(chains[c].master_key.value, LABEL_HOT,
                                   SHA256_DIGEST_SIZE),
           ![c].pc = "expanded"]
    /\ UNCHANGED <<emptyStrZeroed, normVars, deriveVars, wlVars, encVars, childVars,
                   cliVars, pairVars>>

\* wordlist.py 135-159: bytes_to_phrase(child, words, count, "-")
ChainEncode(c) ==
    /\ ProcessAlive
    /\ chains[c].pc = "expanded"
    /\ chains' = [chains EXCEPT
           ![c].passphrase = bytes_to_phrase(chains[c].child.value, ChainWords,
                                             ChainWordCount, <<"-">>),
           ![c].pc = "done"]
    /\ UNCHANGED <<emptyStrZeroed, normVars, deriveVars, wlVars, encVars, childVars,
                   cliVars, pairVars>>

NextChains ==
    \E c \in Chains :
        \/ ChainNormalise(c)
        \/ ChainHash(c)
        \/ ChainClearString(c)
        \/ ChainClearBytes(c)
        \/ ChainExpand(c)
        \/ ChainEncode(c)

SpecChains == InitChains /\ [][NextChains]_vars


\* derive_master_key has handed control back to its caller
Returned(c) == chains[c].pc \in {"derived", "raised", "expanded", "done"}

\* the error types of the other failure kinds: wordlist errors, the encoder's
\* division by zero, the exit on an empty phrase, and the generic Exception
OtherFailureTypes ==
    {load_wordlist(k, <<>>).error : k \in PathKinds}
        \cup {"ZeroDivisionError", "SystemExit", "Exception"}

AloneMasterKey(c) ==
    hash_secret_raw_outcome(chains[c].fault,
        derive_master_key(chains[c].root_phrase, chains[c].test_mode))
AlonePassphrase(c) ==
    bytes_to_phrase(hkdf_child(AloneMasterKey(c).value, LABEL_HOT,
                               SHA256_DIGEST_SIZE).value,
                    ChainWords, ChainWordCount, <<"-">>)

\* C16: two chains on different inputs, interleaved in any order, each return
\* exactly what they return alone: no chain is lost to state written by the
\* other, and every result delivered is the result of the chain run alone.
C16_ChainsIndependent ==
    \A c \in Chains :
        /\ chains[c].pc # "crashed"
        /\ Returned(c) => chains[c].master_key = AloneMasterKey(c)
        /\ chains[c].pc = "done" => chains[c].passphrase = AlonePassphrase(c)

-----------------------------------------------------------------------------
(* Specification Spec: one run of run_derivation (cli.py 132-326), the     *)
(* user's answers, the file system and the memory-hard primitive being the *)
(* environment                                                             *)

\* constants.py 28-32; a path is the sequence of its components
DEFAULT_WORDLIST_PATH == <<"vaultphrases", "data", "eff_short_wordlist_1.txt">>

\* wordlist.py 13-21
get_default_wordlist_path == DEFAULT_WORDLIST_PATH

\* bool(x) of an optional str: None and the empty str are false
truthy(x) == x # None /\ x # <<>>

\* a bytes object held in a local variable, before and after assignment
NoBytes == [set |-> FALSE, data |-> <<>>, cleared |-> FALSE]
BytesObject(data) == [set |-> TRUE, data |-> data, cleared |-> FALSE]
\* secure_clear_bytes applied to a child key
ClearedBytes(b) == [set |-> TRUE, data |-> secure_clear_bytes(b.data), cleared |-> TRUE]
\* secure_clear_bytes applied to the master key, whose bytes are not modelled
ClearedKey(k) == [k EXCEPT !.cleared = TRUE]

\* what the user does at a prompt: a line, end of input, or Ctrl-C
Line(text) == [event |-> "line", text |-> text]
EndOfInput == [event |-> "eof"]
CtrlC == [event |-> "interrupt"]

ConfirmAnswers == {<<"t", "e", "s", "t">>, <<"T", "E", "S", "T">>,
                   <<"T", "e", "s", "t">>, <<"t", "e", "s">>,
                   <<" ", "t", "e", "s", "t">>, <<>>}
TypedPhrases == {<<>>, <<" ">>, <<"\t", "\n">>, <<"a">>, <<"a", " ", "B">>}
UserWordlistPath == <<"user.txt">>
WordlistArgs == {None, UserWordlistPath}
LabelArgs == {None, <<"a">>}
WordCounts == {0, 2}
FileStates == {[kind |-> "missing", text |-> <<>>],
               [kind |-> "file", text |-> <<"#", "a", "\n">>],
               [kind |-> "file", text |-> <<"a", "\n", "1", " ", "b">>]}

\* a prompt that takes every answer for a confirmation
test_mode_confirmed_by_any_answer(confirmation) == TRUE
\* cli.py 153: not (confirmation.lower() != "test")
test_mode_confirmed(confirmation) == lower(confirmation) = <<"t", "e", "s", "t">>

\* a check that forgets the strip()
root_phrase_is_empty_unstripped(root_phrase) == root_phrase = <<>>
\* cli.py 67: not root_phrase or not root_phrase.strip()
root_phrase_is_empty(root_phrase) == root_phrase = <<>> \/ strip(root_phrase) = <<>>

Init ==
    /\ \E test, reveal \in BOOLEAN, label \in LabelArgs,
          wordlist \in WordlistArgs, words \in WordCounts :
          cli = [pc |-> "start",
                 args |-> [test |-> test, reveal |-> reveal, label |-> label,
                           wordlist |-> wordlist, words |-> words],
                 confirmation |-> NotRun, typed |-> NotRun,
                 root_phrase |-> NoStr,
                 words |-> <<>>, master_key |-> NoBytes, hot_raw |-> NoBytes,
                 cold_raw |-> NoBytes, custom_raw |-> NoBytes,
                 phrases |-> <<>>, calls |-> <<>>, errors |-> {},
                 status |-> <<>>]
    /\ printed = {}
    /\ fs \in [{DEFAULT_WORDLIST_PATH, UserWordlistPath} -> FileStates]
    /\ hmacOracle = <<>>
    /\ childKey = NoKey
    /\ label1 = <<>>
    /\ label2 = <<>>
    /\ outLen = 0
    /\ child1 = NoResult
    /\ child2 = NoResult
    /\ NormIdle
    /\ DeriveIdle
    /\ WlIdle
    /\ EncIdle
    /\ ChainsIdle
    /\ PairIdle

\* what no step of run_derivation touches
cliFrame == <<normVars, deriveVars, wlVars, encVars, childKey, label1, label2,
              outLen, child1, child2, chainVars, fs, pairVars>>

NeedsPassphrase == cli.args.reveal \/ truthy(cli.args.label)

\* "return 1" after a report
Return1(frame, error) ==
    [frame EXCEPT !.pc = "returned", !.status = <<1>>,
                  !.errors = @ \cup {error}]
\* sys.exit(1): SystemExit passes both except clauses of run_derivation
SysExit1(frame, error) ==
    [frame EXCEPT !.pc = "exited", !.status = <<1>>,
                  !.errors = @ \cup {error}]
Called(frame, fn, arg) ==
    [frame EXCEPT !.calls = Append(@, [fn |-> fn, arg |-> arg])]

\* cli.py 134-150: banner and test-mode warning
Start ==
    /\ cli.pc = "start"
    /\ cli' = [cli EXCEPT !.pc = IF cli.args.test /\ NeedsPassphrase
                                 THEN "confirm" ELSE "get_root_phrase"]
    /\ UNCHANGED <<printed, hmacOracle, cliFrame>>

\* cli.py 151-162: the confirmation prompt of test mode
Confirm ==
    /\ cli.pc = "confirm"
    /\ \E answer \in {Line(a) : a \in ConfirmAnswers} \cup {EndOfInput, CtrlC} :
          IF answer.event = "line"
          THEN IF test_mode_confirmed(answer.text)
               THEN /\ cli' = [cli EXCEPT !.confirmation = answer.text,
                                          !.pc = "get_root_phrase"]
                    /\ UNCHANGED printed
               ELSE /\ cli' = Return1([cli EXCEPT !.confirmation = answer.text],
                                      "unconfirmed")
                    /\ printed' = printed \cup
                          {"Test mode not confirmed. Exiting for your safety."}
          ELSE /\ cli' = Return1(cli, "unconfirmed")
               /\ printed' = printed \cup {"Test mode not confirmed. Exiting."}
    /\ UNCHANGED <<hmacOracle, cliFrame>>

\* cli.py 165 and 52-110: get_root_phrase
GetRootPhrase ==
    /\ cli.pc = "get_root_phrase"
    /\ \E typed \in {Line(p) : p \in TypedPhrases} \cup {EndOfInput, CtrlC} :
          LET asked == [Called(cli, "get_root_phrase", <<>>) EXCEPT
                           !.typed = IF typed.event = "line" THEN typed.text
                                     ELSE @]
          IN  CASE typed.event = "interrupt" ->
                     /\ cli' = Return1(asked, "KeyboardInterrupt")
                     /\ printed' = printed \cup {"Operation cancelled by user"}
                [] typed.event = "eof" ->
                     /\ cli' = Return1(asked, "EOFError")
                     /\ printed' = printed \cup {"Error: EOF when reading a line"}
                [] typed.event = "line" /\ root_phrase_is_empty(typed.text) ->
                     /\ cli' = SysExit1(asked, "empty root phrase")
                     /\ printed' = printed \cup
                           {"Error: Root phrase cannot be empty"}
                [] OTHER ->
                     /\ cli' = [asked EXCEPT
                            !.root_phrase = StrObject(typed.text),
                            !.pc = IF NeedsPassphrase THEN "load_wordlist"
                                   ELSE "derive"]
                     /\ UNCHANGED printed
    /\ UNCHANGED <<hmacOracle, cliFrame>>

\* cli.py 172-194: the wordlist, when a passphrase is to be shown
CliLoadWordlist ==
    /\ cli.pc = "load_wordlist"
    /\ LET wordlist_path == IF truthy(cli.args.wordlist) THEN cli.args.wordlist
                            ELSE DEFAULT_WORDLIST_PATH
       IN  IF ~truthy(wordlist_path)
           THEN /\ cli' = SysExit1(cli, "no wordlist")
                /\ printed' = printed \cup {"Error: No wordlist specified"}
           ELSE LET loaded == load_wordlist(fs[wordlist_path].kind,
                                            fs[wordlist_path].text)
                    called == Called(cli, "load_wordlist", wordlist_path)
                IN  IF loaded.kind = "error"
                    THEN /\ cli' = Return1(called, loaded.error)
                         /\ printed' = printed \cup {loaded.msg}
                    ELSE /\ cli' = [called EXCEPT !.words = loaded.value,
                                                  !.pc = "derive"]
                         /\ printed' = printed \cup {"Loaded wordlist"}
    /\ UNCHANGED <<hmacOracle, cliFrame>>

\* the labels whose child keys this run may derive
RunLabels == {LABEL_HOT, LABEL_COLD} \cup
             (IF truthy(cli.args.label) THEN {cli.args.label} ELSE {})

\* cli.py 196-197: derive_master_key(root_phrase, test_mode=args.test)
DeriveMasterKey ==
    /\ cli.pc = "derive"
    /\ \E fault \in Argon2Faults :
          LET outcome == hash_secret_raw_outcome(fault,
                             derive_master_key(cli.root_phrase.text, cli.args.test))
              called == Called(cli, "derive_master_key", cli.root_phrase.text)
          IN  IF outcome.kind = "error"
              THEN /\ cli' = Return1(called, outcome.error)
                   /\ printed' = printed \cup {outcome.msg}
                   /\ UNCHANGED hmacOracle
              ELSE /\ cli' = [called EXCEPT
                          !.master_key = BytesObject(outcome.value),
                          !.pc = "clear_root_phrase"]
                   /\ UNCHANGED printed
                   \* HMAC-SHA256 under the new key: collision-free, else arbitrary
                   /\ hmacOracle' \in
                         {f \in [{<<outcome.value, encode_utf8(l)>> :
                                     l \in RunLabels} -> ChainDigests] :
                             Injective(f)}
    /\ UNCHANGED cliFrame

\* cli.py 199-202: secure_clear_string(root_phrase); del root_phrase
ClearRootPhrase ==
    /\ cli.pc = "clear_root_phrase"
    /\ cli' = [cli EXCEPT
           !.root_phrase = secure_clear_string(@),
           !.pc = IF cli.args.reveal THEN "hot"
                  ELSE IF truthy(cli.args.label) THEN "custom"
                  ELSE "clear_master_key"]
    /\ UNCHANGED <<printed, hmacOracle, cliFrame>>

\* one child key and its passphrase: hkdf_child, then bytes_to_phrase
ChildStep(slot, label, next, banner) ==
    LET raw == hkdf_child(cli.master_key.data, label, SHA256_DIGEST_SIZE)
        shown == bytes_to_phrase(raw.value, cli.words, cli.args.words,
                                 DEFAULT_DELIMITER)
        held == [Called(Called(cli, "hkdf_child", label),
                        "bytes_to_phrase", <<>>)
                    EXCEPT ![slot] = BytesObject(raw.value)]
    IN  IF shown.kind = "error"
        THEN /\ cli' = Return1(held, shown.error)
             /\ printed' = printed \cup {shown.msg}
        ELSE /\ cli' = [held EXCEPT !.phrases = Append(@, shown.value),
                                    !.pc = next]
             /\ printed' = printed \cup banner

\* cli.py 205-208
DeriveHot ==
    /\ cli.pc = "hot"
    /\ ChildStep("hot_raw", LABEL_HOT, "cold", {})
    /\ UNCHANGED <<hmacOracle, cliFrame>>

\* cli.py 210-250
DeriveCold ==
    /\ cli.pc = "cold"
    /\ ChildStep("cold_raw", LABEL_COLD, "press_enter", {"DERIVED PASSPHRASES"})
    /\ UNCHANGED <<hmacOracle, cliFrame>>

\* cli.py 263-288
DeriveCustom ==
    /\ cli.pc = "custom"
    /\ ChildStep("custom_raw", cli.args.label, "press_enter", {"DERIVED PASSPHRASE"})
    /\ UNCHANGED <<hmacOracle, cliFrame>>

\* cli.py 252-261 and 290-298: wait for ENTER, then clear the child keys
PressEnter ==
    /\ cli.pc = "press_enter"
    /\ \E answer \in {Line(<<>>), EndOfInput, CtrlC} :
          IF answer.event = "interrupt"
          THEN /\ cli' = Return1(cli, "KeyboardInterrupt")
               /\ printed' = printed \cup {"Operation cancelled by user"}
          ELSE /\ cli' = [cli EXCEPT
                      !.hot_raw = IF @.set THEN ClearedBytes(@) ELSE @,
                      !.cold_raw = IF @.set THEN ClearedBytes(@) ELSE @,
                      !.custom_raw = IF @.set THEN ClearedBytes(@) ELSE @,
                      !.pc = "clear_master_key"]
               /\ printed' = IF answer.event = "eof"
                             THEN printed \cup
                                    {"(Non-interactive mode - screen not cleared)"}
                             ELSE printed
    /\ UNCHANGED <<hmacOracle, cliFrame>>

\* cli.py 300-316: secure_clear_bytes(master_key); return 0
ClearMasterKey ==
    /\ cli.pc = "clear_master_key"
    /\ cli' = [cli EXCEPT !.master_key = ClearedKey(@),
                          !.status = <<0>>,
                          !.pc = "returned"]
    /\ printed' = IF NeedsPassphrase THEN printed
                  ELSE printed \cup {"Master key derived and verified"}
    /\ UNCHANGED <<hmacOracle, cliFrame>>

\* cli.py 318-322: Ctrl-C while run_derivation is computing or printing
Interrupt ==
    /\ cli.pc \in {"load_wordlist", "derive", "clear_root_phrase", "hot",
                   "cold", "custom", "clear_master_key"}
    /\ cli' = Return1(cli, "KeyboardInterrupt")
    /\ printed' = printed \cup {"Operation cancelled by user"}
    /\ UNCHANGED <<hmacOracle, cliFrame>>

Next ==
    \/ Start
    \/ Confirm
    \/ GetRootPhrase
    \/ CliLoadWordlist
    \/ DeriveMasterKey
    \/ ClearRootPhrase
    \/ DeriveHot
    \/ DeriveCold
    \/ DeriveCustom
    \/ PressEnter
    \/ ClearMasterKey
    \/ Interrupt

Spec == Init /\ [][Next]_vars

\* run_derivation has returned, or sys.exit has ended it
Ended == cli.pc \in {"returned", "exited"}

CalledFn(fn) == \E i \in DOMAIN cli.calls : cli.calls[i].fn = fn

\* C12 as stated: with --test and --reveal or --label, the root phrase is
\* asked for only after the confirmation prompt was answered with 'test'.
C12_ConfirmedByAnswerTest ==
    (cli.args.test /\ NeedsPassphrase /\ CalledFn("get_root_phrase")) =>
        cli.confirmation = <<"t", "e", "s", "t">>

\* C12: with --test and --reveal or --label, no root phrase is read and no
\* key is derived unless the confirmation prompt was answered with 'test' in
\* any letter case; every other answer, end of input and Ctrl-C end the run
\* with status 1 before the root-phrase prompt.
C12_ConfirmedBeforeRootPhrase ==
    (cli.args.test /\ NeedsPassphrase) =>
        /\ (CalledFn("get_root_phrase") \/ cli.master_key.set) =>
               /\ cli.confirmation # NotRun
               /\ lower(cli.confirmation) = <<"t", "e", "s", "t">>
        /\ cli.pc \notin {"start", "confirm"} =>
               \/ /\ cli.confirmation # NotRun
                  /\ lower(cli.confirmation) = <<"t", "e", "s", "t">>
               \/ /\ cli.pc = "returned"
                  /\ cli.status = <<1>>
                  /\ cli.calls = <<>>
                  /\ cli.typed = NotRun
                  /\ ~cli.master_key.set

\* --test --reveal, the prompt answered "TEST", and the run went on to derive
\* the key and return 0
C12_Witness ==
    /\ cli.args.test
    /\ cli.args.reveal
    /\ cli.confirmation = <<"T", "E", "S", "T">>
    /\ cli.master_key.set
    /\ cli.pc = "returned"
    /\ cli.status = <<0>>

\* C13: on every exit of run_derivation after the master key was produced,
\* the master key and every child key derived so far have been cleared.
C13_KeysClearedOnEveryExit ==
    (Ended /\ cli.master_key.set) =>
        /\ cli.master_key.cleared
        /\ cli.hot_raw.set => cli.hot_raw.cleared
        /\ cli.cold_raw.set => cli.cold_raw.cleared
        /\ cli.custom_raw.set => cli.custom_raw.cleared

\* C14: whenever run_derivation has obtained a root phrase, the phrase has
\* been cleared when run_derivation ends.
C14_RootPhraseClearedOnEveryExit ==
    (Ended /\ cli.root_phrase # NoStr) => cli.root_phrase.zeroed

\* the reports of errors, as against results and notices
ErrorReports ==
    {"Test mode not confirmed. Exiting for your safety.",
     "Test mode not confirmed. Exiting.", "Operation cancelled by user",
     "Error: EOF when reading a line", "Error: Root phrase cannot be empty",
     "Error: No wordlist specified", "Memory allocation error"}
        \cup {load_wordlist(k, <<>>).msg : k \in PathKinds}

\* the encoder was asked for a word count that is not positive
InvalidCountEncoded == cli.phrases # <<>> /\ cli.args.words <= 0

\* C15: every error of a run is reported and ends it with a non-zero status,
\* and status 0 is returned only when the run completed without error, an
\* encoder asked for a non-positive count being an error.
C15_ErrorsReportedAndNonZero ==
    Ended =>
        /\ cli.errors # {} =>
               /\ cli.status = <<1>>
               /\ printed \cap ErrorReports # {}
        /\ cli.status = <<0>> =>
               /\ cli.errors = {}
               /\ ~InvalidCountEncoded

\* C17: there is no default wordlist, so a --reveal or --label run without
\* --wordlist reports 'No wordlist specified' and never loads a wordlist.
C17_NoDefaultWordlist ==
    (NeedsPassphrase /\ ~truthy(cli.args.wordlist) /\ cli.root_phrase # NoStr
        /\ cli.pc # "load_wordlist") =>
        /\ get_default_wordlist_path = None
        /\ "Error: No wordlist specified" \in printed
        /\ ~CalledFn("load_wordlist")

\* C18: derive_master_key is invoked only with a phrase whose normalised form
\* is non-empty; a typed phrase that is empty or whitespace-only ends the run
\* with status 1 and no key derived.
C18_EmptyPhraseRejectedBeforeCore ==
    /\ \A i \in DOMAIN cli.calls :
          cli.calls[i].fn = "derive_master_key" =>
              normalise_phrase(cli.calls[i].arg) # <<>>
    /\ (cli.typed # NotRun /\ normalise_phrase(cli.typed) = <<>>) =>
          /\ Ended
          /\ cli.status = <<1>>
          /\ ~cli.master_key.set
          /\ ~CalledFn("derive_master_key")

\* a phrase of a tab and a newline was typed and the run ended through
\* sys.exit(1) before any core call
C18_Witness ==
    /\ cli.typed = <<"\t", "\n">>
    /\ cli.pc = "exited"
    /\ cli.status = <<1>>
    /\ "Error: Root phrase cannot be empty" \in printed
    /\ ~cli.master_key.set

=============================================================================
